---- MODULE Spec2Model ----
(***************************************************************************)
(* A model of preprocess.py: the DXF -> SVG laser-cutting preprocessor.    *)
(*                                                                         *)
(* Paths are sequences of one-character strings, so that the extension    *)
(* and directory arithmetic of os.path is computed character by character. *)
(* Style attribute values, colours and printed notices are TLA+ strings.   *)
(* An optional value (Python's None or a value) is a sequence of length 0  *)
(* or 1.                                                                   *)
(***************************************************************************)
EXTENDS Integers, Sequences, FiniteSets, TLC

VARIABLES
    pc,           \* position of the run: which statement executes next
    input_path,   \* main's input_path argument
    output_path,  \* main's output_path argument: <<>> (None) or <<path>>
    entries,      \* what os.listdir(input_path) yields, in the order it yields it
    idx,          \* position of main's for loop in entries
    dxf_path,     \* preprocess's dxf_path argument
    svg_path,     \* preprocess's svg_path: <<>> (None) or <<path>>
    fs,           \* the file system: path -> content of the file at that path
    xml,          \* the tree style_strokes returned: <<>> or <<document>>
    exc,          \* the exception in flight or escaped from main: <<>> or <<e>>
    stdout,       \* the notices printed so far
    calls,        \* the converter invocations and write-backs so far
    arg,          \* the input of a pure-function run
    ret           \* the results of a pure-function run

vars == <<pc, input_path, output_path, entries, idx, dxf_path, svg_path, fs,
          xml, exc, stdout, calls, arg, ret>>

progVars == <<input_path, output_path, entries, idx, dxf_path, svg_path, fs,
              xml, exc, stdout, calls>>

(***************************************************************************)
(* Bounds of the model.                                                    *)
(***************************************************************************)
MaxPathLen == 5
MaxEntries == 3
MaxElems == 2

(***************************************************************************)
(* Python string helpers, 1-based.                                         *)
(***************************************************************************)
\* The 1-based position of the last c in s, 0 when there is none
\* (Python's s.rfind(c) + 1).
RECURSIVE RFind(_, _)
RFind(s, c) ==
    IF s = <<>> THEN 0
    ELSE IF s[Len(s)] = c THEN Len(s)
    ELSE RFind(SubSeq(s, 1, Len(s) - 1), c)

\* s.rstrip(c)
RECURSIVE RStrip(_, _)
RStrip(s, c) ==
    IF s # <<>> /\ s[Len(s)] = c THEN RStrip(SubSeq(s, 1, Len(s) - 1), c) ELSE s

\* All sequences over set A of length at most n.
RECURSIVE StringsUpTo(_, _)
StringsUpTo(A, n) ==
    IF n = 0 THEN {<<>>}
    ELSE LET shorter == StringsUpTo(A, n - 1)
         IN  shorter \cup {Append(s, c) : s \in {t \in shorter : Len(t) = n - 1}, c \in A}

(***************************************************************************)
(* os.path (POSIX).                                                        *)
(***************************************************************************)
\* os.path.basename(p): what follows the last separator.
basename(p) == SubSeq(p, RFind(p, "/") + 1, Len(p))

\* os.path.dirname(p): what precedes the last separator, trailing separators
\* stripped unless the head is separators only.
dirname(p) ==
    LET head == SubSeq(p, 1, RFind(p, "/"))
    IN  IF head # <<>> /\ (\E k \in 1..Len(head) : head[k] # "/")
        THEN RStrip(head, "/")
        ELSE head

\* os.path.splitext(p): <<root, ext>>. The extension starts at the last dot
\* of the last component, unless only dots precede that dot in the component.
splitext(p) ==
    LET sepIndex == RFind(p, "/")
        dotIndex == RFind(p, ".")
    IN  IF dotIndex > sepIndex
           /\ \E k \in (sepIndex + 1)..(dotIndex - 1) : p[k] # "."
        THEN <<SubSeq(p, 1, dotIndex - 1), SubSeq(p, dotIndex, Len(p))>>
        ELSE <<p, <<>>>>

\* os.path.join(a, b)
join(a, b) ==
    IF b # <<>> /\ b[1] = "/" THEN b
    ELSE IF a = <<>> \/ a[Len(a)] = "/" THEN a \o b
    ELSE a \o <<"/">> \o b

(***************************************************************************)
(* File path utilities.                                                    *)
(***************************************************************************)
\* A variant that takes everything from the last dot of the base name.
get_file_ext_last_dot(file_path) ==
    LET b == basename(file_path)
    IN  IF RFind(b, ".") = 0 THEN <<>> ELSE SubSeq(b, RFind(b, "."), Len(b))

\* get_file_ext(file_path)
get_file_ext(file_path) == splitext(basename(file_path))[2]

DotSvg == <<".", "s", "v", "g">>

\* get_svg_name(dxf_path): the base name with its extension replaced by .svg
get_svg_name(p) == splitext(basename(p))[1] \o DotSvg

(***************************************************************************)
(* SVG documents.  A document is its source (the drawing it was converted  *)
(* from, which Inkscape records in the root's docname) and its elements in *)
(* document order; elems[1] is the root element, the others descend from   *)
(* it.  An element is its namespace, its local name, its style attribute  *)
(* (<<>> when it has none) and its path data attribute.                    *)
(***************************************************************************)
SvgNs == "http://www.w3.org/2000/svg"
Signature == "stroke:#000000;fill:none"
DefaultColor == "#ff0000"
\* Stroke widths are counted in units of 10^-8 pixels: 0.07559055 px.
DefaultWidth == 7559055
WidthUnit == 10^8

Digit(d) == <<"0", "1", "2", "3", "4", "5", "6", "7", "8", "9">>[d + 1]

RECURSIVE IntStr(_)
IntStr(n) == IF n < 10 THEN Digit(n) ELSE IntStr(n \div 10) \o Digit(n % 10)

\* The k low decimal digits of f, zero padded.
RECURSIVE FracDigits(_, _)
FracDigits(f, k) == IF k = 0 THEN "" ELSE FracDigits(f \div 10, k - 1) \o Digit(f % 10)

\* The fraction's digits without trailing zeros, at least one digit.
RECURSIVE StripFrac(_, _)
StripFrac(f, k) ==
    IF k > 1 /\ f % 10 = 0 THEN StripFrac(f \div 10, k - 1) ELSE FracDigits(f, k)

\* '{}'.format(stroke_width) of a float: Python's shortest repr, which for a
\* value of at most 8 decimals in [0.0001, 10^16), or 0, is its decimal
\* expansion with at least one fractional digit.
FormatFloat(w) == IntStr(w \div WidthUnit) \o "." \o StripFrac(w % WidthUnit, 8)

\* A variant that writes the black signature with the colour substituted.
FormatStyleKeepShape(stroke_color, stroke_width) ==
    "stroke:" \o stroke_color \o ";fill:none"

\* The style written on a matched path.
FormatStyle(stroke_color, stroke_width) ==
    "fill:none;stroke:" \o stroke_color \o ";stroke-opacity:1;stroke-width:"
    \o FormatFloat(stroke_width) \o ";stroke-miterlimit:4;stroke-dasharray:none"

\* A variant that matches every path element, whatever its style.
MatchedAnyPath(elems, i) ==
    i > 1 /\ elems[i].ns = SvgNs /\ elems[i].tag = "path"

\* svg.findall('.//{http://www.w3.org/2000/svg}path[@style="..."]'): the
\* descendants of the root (never the root itself) in the SVG namespace,
\* named path, whose style attribute is the signature.
Matched(elems, i) ==
    /\ i > 1
    /\ elems[i].ns = SvgNs
    /\ elems[i].tag = "path"
    /\ elems[i].style = <<Signature>>

\* style_strokes, on the parsed tree.
style_strokes(doc, stroke_color, stroke_width) ==
    [doc EXCEPT !.elems =
        [i \in 1..Len(doc.elems) |->
            IF Matched(doc.elems, i)
            THEN [doc.elems[i] EXCEPT
                    !.style = <<FormatStyle(stroke_color, stroke_width)>>]
            ELSE doc.elems[i]]]

(***************************************************************************)
(* The environment of a run: the paths given on the command line, the     *)
(* directory's listing, the files left by earlier runs and what Inkscape   *)
(* does when it is invoked.                                                *)
(***************************************************************************)
DotDxf == <<".", "d", "x", "f">>
Dir == <<"d">>
ADxf == <<"a">> \o DotDxf
CDxf == <<"c">> \o DotDxf
BTxt == <<"b", ".", "t", "x", "t">>
NoExt == <<"e">>
ASvg == <<"a">> \o DotSvg
EntryNames == {ADxf, CDxf, BTxt, NoExt, ASvg}

\* The single-file inputs: right extension (with and without a directory),
\* wrong extension, wrong case, and a name that is nothing but ".dxf".
SingleInputs ==
    {ADxf, Dir \o <<"/">> \o ADxf, <<"n", ".", "t", "x", "t">>,
     <<"a", ".", "D", "X", "F">>, DotDxf}

OutDir == <<"o">>
OutDirSlash == <<"o", "/">>
OutFile == <<"o">> \o DotSvg
OutputPaths == {<<>>, <<OutDir>>, <<OutDirSlash>>, <<OutFile>>}

\* The listings of a directory: its entries are distinct names, in any order.
Listings ==
    {l \in StringsUpTo(EntryNames, MaxEntries) :
        \A i, j \in 1..Len(l) : i # j => l[i] # l[j]}

IsDir(p) == p = Dir

\* What Inkscape writes for a drawing: a black outline path, a path that is
\* already coloured, below an svg root.
InkscapeDoc(dxf) ==
    [src |-> dxf,
     elems |-> << [ns |-> SvgNs, tag |-> "svg", style |-> <<>>, d |-> ""],
                  [ns |-> SvgNs, tag |-> "path", style |-> <<Signature>>, d |-> "M 0,0 L 1,1"],
                  [ns |-> SvgNs, tag |-> "path", style |-> <<"stroke:#ff0000;fill:none">>, d |-> "M 1,1 L 2,2"] >>]

NoDoc == [src |-> <<>>, elems |-> <<>>]
ValidFile(doc) == [valid |-> TRUE, doc |-> doc]
GarbageFile == [valid |-> FALSE, doc |-> NoDoc]

\* The output an earlier run left behind: a styled drawing of some other file.
OldDxf == <<"z">> \o DotDxf
StaleFile == ValidFile(style_strokes(InkscapeDoc(OldDxf), DefaultColor, DefaultWidth))
StalePaths == {Dir \o <<"/", "a">> \o DotSvg, OutFile}
InitialFs == {<<>>} \cup {p :> StaleFile : p \in StalePaths}

\* What os.listdir(dir) can yield over the file system f: every file of f that
\* lies in dir is listed, and a listed .svg name is a file of f (f holds the
\* SVG files; drawings and other entries are opaque to the program).
ListingsOf(dir, f) ==
    {l \in Listings :
        /\ \A q \in DOMAIN f :
            dirname(q) = dir => \E i \in 1..Len(l) : l[i] = basename(q)
        /\ \A i \in 1..Len(l) :
            get_file_ext(l[i]) = DotSvg => join(dir, l[i]) \in DOMAIN f}

\* The file system with the file at p replaced by (or created as) content c.
WriteFile(f, p, c) == [q \in DOMAIN f \cup {p} |-> IF q = p THEN c ELSE f[q]]

\* The outcomes of running Inkscape: it writes the drawing, it exits without
\* touching the output path, or it leaves something that is not XML there.
ConverterOutcomes == {"ok", "untouched", "garbage"}

AfterConvert(f, dxf, svg, outcome) ==
    CASE outcome = "ok" -> WriteFile(f, svg, ValidFile(InkscapeDoc(dxf)))
      [] outcome = "garbage" -> WriteFile(f, svg, GarbageFile)
      [] OTHER -> f

(***************************************************************************)
(* preprocess and main.                                                    *)
(***************************************************************************)
Batch == get_file_ext(input_path) = <<>>

\* A variant of the extension test that ignores case.
ExtOkAnyCase(ext) == ext \in {DotDxf, <<".", "D", "X", "F">>}

\* dxf_ext != '.dxf', negated.
ExtOk(ext) == ext = DotDxf

\* A variant that always derives the name from the input.
ResolveAlwaysDerived(dxf, svg) ==
    IF svg = <<>> THEN join(dirname(dxf), get_svg_name(dxf))
    ELSE join(svg[1], get_svg_name(dxf))

\* The output path preprocess settles on.
Resolve(dxf, svg) ==
    IF svg = <<>> THEN join(dirname(dxf), get_svg_name(dxf))
    ELSE IF get_file_ext(svg[1]) = <<>> THEN join(svg[1], get_svg_name(dxf))
    ELSE svg[1]

FileTypeError(ext, path) == [kind |-> "FileTypeError", ext |-> ext, path |-> path]
OtherError(kind, path) == [kind |-> kind, ext |-> <<>>, path |-> path]

\* A variant of the handler that catches nothing.
CatchesNothing(e) == FALSE

\* except FileTypeError
Catches(e) == e.kind = "FileTypeError"

Notice(msg, a, b) == [msg |-> msg, a |-> a, b |-> b]
Call(op, dxf, svg, outcome) == [op |-> op, dxf |-> dxf, svg |-> svg, outcome |-> outcome]

Init ==
    /\ pc = "main"
    /\ input_path \in {Dir} \cup SingleInputs
    /\ output_path \in OutputPaths
    /\ fs \in InitialFs
    /\ entries \in IF IsDir(input_path) THEN ListingsOf(input_path, fs) ELSE {<<>>}
    /\ idx = 0
    /\ dxf_path = <<>>
    /\ svg_path = <<>>
    /\ xml = <<>>
    /\ exc = <<>>
    /\ stdout = <<>>
    /\ calls = <<>>
    /\ arg = <<>>
    /\ ret = <<>>

\* main, a single file: preprocess(input_path, output_path)
MainSingle ==
    /\ pc = "main"
    /\ get_file_ext(input_path) # <<>>
    /\ dxf_path' = input_path
    /\ svg_path' = output_path
    /\ pc' = "preprocess"
    /\ UNCHANGED <<input_path, output_path, entries, idx, fs, xml, exc, stdout, calls, arg, ret>>

\* main, a directory: os.listdir(input_path) yields the entries
MainListdir ==
    /\ pc = "main"
    /\ get_file_ext(input_path) = <<>>
    /\ IsDir(input_path)
    /\ idx' = 1
    /\ pc' = "loop"
    /\ UNCHANGED <<input_path, output_path, entries, dxf_path, svg_path, fs, xml, exc, stdout, calls, arg, ret>>

\* main, a path without extension that is no directory: os.listdir raises
MainListdirFails ==
    /\ pc = "main"
    /\ get_file_ext(input_path) = <<>>
    /\ ~IsDir(input_path)
    /\ exc' = <<OtherError("NotADirectoryError", input_path)>>
    /\ pc' = "raised"
    /\ UNCHANGED <<input_path, output_path, entries, idx, dxf_path, svg_path, fs, xml, stdout, calls, arg, ret>>

\* for filename in ...: preprocess(os.path.join(input_path, filename), output_path)
LoopCall ==
    /\ pc = "loop"
    /\ idx <= Len(entries)
    /\ dxf_path' = join(input_path, entries[idx])
    /\ svg_path' = output_path
    /\ pc' = "preprocess"
    /\ UNCHANGED <<input_path, output_path, entries, idx, fs, xml, exc, stdout, calls, arg, ret>>

\* the listing is exhausted: main returns
LoopExit ==
    /\ pc = "loop"
    /\ idx > Len(entries)
    /\ pc' = "done"
    /\ UNCHANGED <<progVars, arg, ret>>

\* preprocess: the extension is not .dxf, raise FileTypeError
PreprocessReject ==
    /\ pc = "preprocess"
    /\ ~ExtOk(get_file_ext(dxf_path))
    /\ exc' = <<FileTypeError(get_file_ext(dxf_path), dxf_path)>>
    /\ pc' = "except"
    /\ UNCHANGED <<input_path, output_path, entries, idx, dxf_path, svg_path, fs, xml, stdout, calls, arg, ret>>

\* A variant of preprocess that goes on to style_strokes without converting.
PreprocessResolveSkipsConvert ==
    /\ pc = "preprocess"
    /\ ExtOk(get_file_ext(dxf_path))
    /\ svg_path' = <<Resolve(dxf_path, svg_path)>>
    /\ pc' = "style"
    /\ UNCHANGED <<input_path, output_path, entries, idx, dxf_path, fs, xml, exc, stdout, calls, arg, ret>>

\* preprocess: the extension is .dxf, settle the output path
PreprocessResolve ==
    /\ pc = "preprocess"
    /\ ExtOk(get_file_ext(dxf_path))
    /\ svg_path' = <<Resolve(dxf_path, svg_path)>>
    /\ pc' = "convert"
    /\ UNCHANGED <<input_path, output_path, entries, idx, dxf_path, fs, xml, exc, stdout, calls, arg, ret>>

\* convert(dxf_path, svg_path): Inkscape runs, its outcome is not inspected,
\* and the notice is printed
Convert ==
    /\ pc = "convert"
    /\ \E outcome \in ConverterOutcomes :
        /\ fs' = AfterConvert(fs, dxf_path, svg_path[1], outcome)
        /\ calls' = Append(calls, Call("convert", dxf_path, svg_path[1], outcome))
    /\ stdout' = Append(stdout, Notice("Converted", dxf_path, svg_path[1]))
    /\ pc' = "style"
    /\ UNCHANGED <<input_path, output_path, entries, idx, dxf_path, svg_path, xml, exc, arg, ret>>

\* convert(dxf_path, svg_path): there is no inkscape to run, subprocess.run
\* raises
ConvertCannotStart ==
    /\ pc = "convert"
    /\ calls' = Append(calls, Call("convert", dxf_path, svg_path[1], "not started"))
    /\ exc' = <<OtherError("FileNotFoundError", <<>>)>>
    /\ pc' = "except"
    /\ UNCHANGED <<input_path, output_path, entries, idx, dxf_path, svg_path, fs, xml, stdout, arg, ret>>

\* style_strokes(svg_path): etree.parse fails on a missing or malformed file
StyleStrokesFails ==
    /\ pc = "style"
    /\ \/ /\ svg_path[1] \notin DOMAIN fs
          /\ exc' = <<OtherError("OSError", svg_path[1])>>
       \/ /\ svg_path[1] \in DOMAIN fs
          /\ ~fs[svg_path[1]].valid
          /\ exc' = <<OtherError("XMLSyntaxError", svg_path[1])>>
    /\ pc' = "except"
    /\ UNCHANGED <<input_path, output_path, entries, idx, dxf_path, svg_path, fs, xml, stdout, calls, arg, ret>>

\* style_strokes(svg_path): the file parses, its black paths are restyled
StyleStrokesOk ==
    /\ pc = "style"
    /\ svg_path[1] \in DOMAIN fs
    /\ fs[svg_path[1]].valid
    /\ xml' = <<style_strokes(fs[svg_path[1]].doc, DefaultColor, DefaultWidth)>>
    /\ pc' = "write"
    /\ UNCHANGED <<input_path, output_path, entries, idx, dxf_path, svg_path, fs, exc, stdout, calls, arg, ret>>

\* xml.write(svg_path), the notice, and preprocess returns to main
XmlWrite ==
    /\ pc = "write"
    /\ fs' = WriteFile(fs, svg_path[1], ValidFile(xml[1]))
    /\ calls' = Append(calls, Call("write", dxf_path, svg_path[1], "written"))
    /\ stdout' = Append(stdout, Notice("Set stroke styles on", svg_path[1], <<>>))
    /\ xml' = <<>>
    /\ IF Batch THEN idx' = idx + 1 /\ pc' = "loop"
                ELSE idx' = idx /\ pc' = "done"
    /\ UNCHANGED <<input_path, output_path, entries, dxf_path, svg_path, exc, arg, ret>>

\* main's except clause: the entry is skipped with a notice
MainSkip ==
    /\ pc = "except"
    /\ Batch
    /\ Catches(exc[1])
    /\ stdout' = Append(stdout, Notice("Skipped", entries[idx], <<>>))
    /\ exc' = <<>>
    /\ idx' = idx + 1
    /\ pc' = "loop"
    /\ UNCHANGED <<input_path, output_path, entries, dxf_path, svg_path, fs, xml, calls, arg, ret>>

\* no handler applies: the exception leaves main and ends the run
Propagate ==
    /\ pc = "except"
    /\ ~(Batch /\ Catches(exc[1]))
    /\ pc' = "raised"
    /\ UNCHANGED <<progVars, arg, ret>>

Next ==
    \/ MainSingle
    \/ MainListdir
    \/ MainListdirFails
    \/ LoopCall
    \/ LoopExit
    \/ PreprocessReject
    \/ PreprocessResolve
    \/ Convert
    \/ ConvertCannotStart
    \/ StyleStrokesFails
    \/ StyleStrokesOk
    \/ XmlWrite
    \/ MainSkip
    \/ Propagate

Spec == Init /\ [][Next]_vars

(***************************************************************************)
(* The pure functions on their own: get_file_ext applied to every path    *)
(* over a small alphabet, and style_strokes applied to every small        *)
(* document, once and then once more on its result.                        *)
(***************************************************************************)
ProgIdle ==
    /\ input_path = <<>>
    /\ output_path = <<>>
    /\ entries = <<>>
    /\ idx = 0
    /\ dxf_path = <<>>
    /\ svg_path = <<>>
    /\ fs = <<>>
    /\ xml = <<>>
    /\ exc = <<>>
    /\ stdout = <<>>
    /\ calls = <<>>

PathAlphabet == {"a", ".", "/"}

InitExt ==
    /\ pc = "call"
    /\ arg \in StringsUpTo(PathAlphabet, MaxPathLen)
    /\ ret = <<>>
    /\ ProgIdle

CallGetFileExt ==
    /\ pc = "call"
    /\ ret' = <<get_file_ext(arg)>>
    /\ pc' = "returned"
    /\ UNCHANGED <<progVars, arg>>

NextExt == CallGetFileExt

SpecExt == InitExt /\ [][NextExt]_vars

\* The documents: an svg root, with or without the signature as its own
\* style, and up to MaxElems descendants of every kind.
Styles ==
    {<<>>, <<Signature>>, <<"stroke:#000000; fill:none">>,
     <<"STROKE:#000000;FILL:NONE">>, <<"stroke:#ff0000;fill:none">>}
Elems ==
    [ns : {SvgNs, "urn:other"}, tag : {"path", "g"}, style : Styles, d : {"M 0,0"}]
Roots == [ns : {SvgNs}, tag : {"svg"}, style : {<<>>, <<Signature>>}, d : {""}]
Documents ==
    {[src |-> ADxf, elems |-> <<r>> \o below] :
        r \in Roots, below \in StringsUpTo(Elems, MaxElems)}
Colors == {DefaultColor, "#000000"}
Widths == {DefaultWidth, WidthUnit}

InitStyle ==
    /\ pc = "parsed"
    /\ arg \in [doc : Documents, stroke_color : Colors, stroke_width : Widths]
    /\ ret = <<>>
    /\ ProgIdle

\* style_strokes on the document
StyleFirst ==
    /\ pc = "parsed"
    /\ ret' = <<[arg EXCEPT !.doc = style_strokes(arg.doc, arg.stroke_color, arg.stroke_width)]>>
    /\ pc' = "styled"
    /\ UNCHANGED <<progVars, arg>>

\* style_strokes on the result, with any colour and width
StyleAgain ==
    /\ pc = "styled"
    /\ \E c \in Colors, w \in Widths :
        ret' = Append(ret, [doc |-> style_strokes(ret[1].doc, c, w),
                            stroke_color |-> c, stroke_width |-> w])
    /\ pc' = "restyled"
    /\ UNCHANGED <<progVars, arg>>

NextStyle == StyleFirst \/ StyleAgain

SpecStyle == InitStyle /\ [][NextStyle]_vars

(***************************************************************************)
(* The claims.                                                             *)
(***************************************************************************)
\* The base name of p, stated without rfind: the suffix of p free of
\* separators that p's start or a separator precedes.
BaseNameOf(p) ==
    CHOOSE b \in {SubSeq(p, k, Len(p)) : k \in 1..(Len(p) + 1)} :
        /\ \A i \in 1..Len(b) : b[i] # "/"
        /\ Len(b) = Len(p) \/ p[Len(p) - Len(b)] = "/"

\* The position of the last dot of b, 0 when it has none.
LastDotOf(b) ==
    IF \E i \in 1..Len(b) : b[i] = "."
    THEN CHOOSE i \in 1..Len(b) : b[i] = "." /\ \A j \in (i + 1)..Len(b) : b[j] # "."
    ELSE 0

\* C8 as stated: get_file_ext(p) is the base name from its last dot onward when
\* the base name contains a dot, and empty when it contains none.
C8_ExtFromLastDot ==
    pc = "returned" =>
        LET b == BaseNameOf(arg)
            i == LastDotOf(b)
        IN  ret[1] = IF i > 0 THEN SubSeq(b, i, Len(b)) ELSE <<>>

\* C8 amended: get_file_ext(p) is the base name from its last dot onward when
\* some character of the base name before that dot is not a dot; otherwise (no
\* dot, or only dots before the last dot, as in '.dxf') it is empty.
C8_ExtFromLastDotAfterName ==
    pc = "returned" =>
        LET b == BaseNameOf(arg)
            i == LastDotOf(b)
        IN  ret[1] = IF i > 0 /\ \E k \in 1..(i - 1) : b[k] # "."
                     THEN SubSeq(b, i, Len(b))
                     ELSE <<>>

\* A path whose base name is a dot-file: the extension is empty; the witness
\* of C8.
C8_Witness ==
    /\ pc = "returned"
    /\ arg = <<"a", "/", ".", "a">>
    /\ ret = << <<>> >>

\* The text of each width of the model, as Python prints the float.
WidthText(w) ==
    CASE w = 7559055 -> "0.07559055"
      [] w = 100000000 -> "1.0"

\* The style the claim says a matched path receives.
ClaimedStyle(c, w) ==
    "fill:none;stroke:" \o c \o ";stroke-opacity:1;stroke-width:" \o WidthText(w)
    \o ";stroke-miterlimit:4;stroke-dasharray:none"

\* C5: style_strokes sets the style of exactly the SVG-namespace path elements
\* whose style is 'stroke:#000000;fill:none' to the laser-cut style built from
\* stroke_color and stroke_width, and leaves every other element, and every
\* other attribute, as it was.
C5_ExactlySignaturePathsRewritten ==
    pc \in {"styled", "restyled"} =>
        LET before == arg.doc.elems
            after == ret[1].doc.elems
        IN  /\ Len(after) = Len(before)
            /\ ret[1].doc.src = arg.doc.src
            /\ \A i \in 1..Len(before) :
                IF /\ before[i].ns = "http://www.w3.org/2000/svg"
                   /\ before[i].tag = "path"
                   /\ before[i].style = <<"stroke:#000000;fill:none">>
                THEN after[i] = [before[i] EXCEPT
                        !.style = <<ClaimedStyle(arg.stroke_color, arg.stroke_width)>>]
                ELSE after[i] = before[i]
            /\ (arg.stroke_color = "#ff0000" /\ arg.stroke_width = 7559055) =>
                \A i \in 1..Len(before) :
                    after[i].style # before[i].style =>
                        after[i].style = <<"fill:none;stroke:#ff0000;stroke-opacity:1;stroke-width:0.07559055;stroke-miterlimit:4;stroke-dasharray:none">>

\* A document with a black path, a near-miss and a non-path element carrying
\* the signature, of which only the first was rewritten; the witness of C5.
C5_Witness ==
    /\ pc = "styled"
    /\ Len(arg.doc.elems) = 3
    /\ arg.doc.elems[1].style = <<Signature>>
    /\ arg.doc.elems[2] = [ns |-> SvgNs, tag |-> "path", style |-> <<Signature>>, d |-> "M 0,0"]
    /\ arg.doc.elems[3] = [ns |-> SvgNs, tag |-> "path", style |-> <<"stroke:#000000; fill:none">>, d |-> "M 0,0"]
    /\ ret[1].doc.elems[1] = arg.doc.elems[1]
    /\ ret[1].doc.elems[2].style # <<Signature>>
    /\ ret[1].doc.elems[3] = arg.doc.elems[3]

\* C9: a second application of style_strokes, with any colour and width, to the
\* result of a first changes no element, and no style the first application
\* wrote equals the signature.
C9_Idempotent ==
    /\ pc = "restyled" => ret[2].doc = ret[1].doc
    /\ pc \in {"styled", "restyled"} =>
        \A i \in 1..Len(arg.doc.elems) :
            ret[1].doc.elems[i] # arg.doc.elems[i] =>
                ret[1].doc.elems[i].style # <<"stroke:#000000;fill:none">>

\* A document whose black path the first application rewrote, restyled with
\* another colour and width; the witness of C9.
C9_Witness ==
    /\ pc = "restyled"
    /\ \E i \in 1..Len(arg.doc.elems) : ret[1].doc.elems[i] # arg.doc.elems[i]
    /\ arg.stroke_color = "#000000"
    /\ ret[2].stroke_color # arg.stroke_color
    /\ ret[2].stroke_width # arg.stroke_width

\* The derived SVG name of an accepted input, stated on the characters: the
\* base name with its last four characters, '.dxf', replaced by '.svg'.
DerivedName(dxf) ==
    LET b == BaseNameOf(dxf)
    IN  SubSeq(b, 1, Len(b) - 4) \o <<".", "s", "v", "g">>

\* The directory part of dxf: what precedes the separator before its base name.
DirectoryOf(dxf) == SubSeq(dxf, 1, Len(dxf) - Len(BaseNameOf(dxf)) - 1)

\* parent joined with name
Joined(parent, name) ==
    IF parent = <<>> THEN name
    ELSE IF parent[Len(parent)] = "/" THEN parent \o name
    ELSE parent \o <<"/">> \o name

\* The output path the claim gives for dxf under the --output value out.
ClaimedOutput(dxf, out) ==
    IF out = <<>> THEN Joined(DirectoryOf(dxf), DerivedName(dxf))
    ELSE IF get_file_ext(out[1]) = <<>> THEN Joined(out[1], DerivedName(dxf))
    ELSE out[1]

\* C1: for an accepted input, the output path is dirname(dxf_path) joined with
\* the derived name when no output is given, the output joined with the derived
\* name when the output has no extension, and the output itself otherwise; the
\* converter and the write-back use exactly that path.
C1_ResolvedOutputPath ==
    /\ pc \in {"convert", "style", "write"} =>
        svg_path = <<ClaimedOutput(dxf_path, output_path)>>
    /\ \A k \in 1..Len(calls) :
        calls[k].svg = ClaimedOutput(calls[k].dxf, output_path)
    /\ (pc = "convert" /\ dxf_path = <<"a", ".", "d", "x", "f">>) =>
        /\ output_path = <<>> => svg_path[1] = <<"a", ".", "s", "v", "g">>
        /\ output_path = << <<"o", "/">> >> =>
            svg_path[1] = <<"o", "/", "a", ".", "s", "v", "g">>
        /\ output_path = << <<"o", ".", "s", "v", "g">> >> =>
            svg_path[1] = <<"o", ".", "s", "v", "g">>

\* a.dxf with output 'o/' converted to and written back at o/a.svg; the
\* witness of C1.
C1_Witness ==
    /\ input_path = ADxf
    /\ output_path = <<OutDirSlash>>
    /\ pc = "done"
    /\ Len(calls) = 2
    /\ calls[1] = Call("convert", ADxf, <<"o", "/", "a", ".", "s", "v", "g">>, "ok")
    /\ calls[2].op = "write"
    /\ calls[2].svg = <<"o", "/", "a", ".", "s", "v", "g">>

\* C2: a preprocess call whose dxf_path has an extension other than exactly
\* '.dxf' raises a file-type error carrying that extension and the path, with
\* no converter call and no file change; one whose extension is '.dxf' raises
\* no file-type error and goes on to the converter.
C2_FileTypeErrorFirst ==
    [][pc = "preprocess" =>
        /\ \A k \in 1..Len(calls) : calls[k].dxf # dxf_path
        /\ IF get_file_ext(dxf_path) = <<".", "d", "x", "f">>
           THEN pc' = "convert" /\ exc' = <<>>
           ELSE /\ pc' = "except"
                /\ exc' = <<[kind |-> "FileTypeError",
                             ext |-> get_file_ext(dxf_path),
                             path |-> dxf_path]>>
                /\ fs' = fs
                /\ calls' = calls]_vars

\* a.DXF rejected with the extension '.DXF' and its path, nothing converted;
\* the witness of C2.
C2_Witness ==
    /\ pc = "except"
    /\ exc = <<[kind |-> "FileTypeError", ext |-> <<".", "D", "X", "F">>,
                path |-> <<"a", ".", "D", "X", "F">>]>>
    /\ calls = <<>>
    /\ fs = <<>>

\* Whether an entry's name ends in '.dxf' after a name of its own.
EndsInDxf(name) ==
    Len(name) > 4 /\ SubSeq(name, Len(name) - 3, Len(name)) = <<".", "d", "x", "f">>

Printed(msg, a) == \E n \in 1..Len(stdout) : stdout[n].msg = msg /\ stdout[n].a = a
Called(op, dxf) == \E n \in 1..Len(calls) : calls[n].op = op /\ calls[n].dxf = dxf

\* What the claim says of the run's entry k: skipped with a notice and nothing
\* else when its extension is not '.dxf', converted and styled when it is.
EntryHandled(k) ==
    LET path == Joined(input_path, entries[k])
    IN  IF EndsInDxf(entries[k])
        THEN /\ Called("convert", path)
             /\ Called("write", path)
             /\ ~Printed("Skipped", entries[k])
        ELSE /\ Printed("Skipped", entries[k])
             /\ ~Called("convert", path)
             /\ ~Called("write", path)

\* C3: in batch mode every entry the loop has passed was handed to preprocess
\* and was skipped with a notice (extension not '.dxf') or converted and styled
\* (extension '.dxf'), wherever the entries without '.dxf' stand in the
\* listing; a file-type error never ends the run; when main returns, every
\* entry of the directory has been so handled; and the only runs that do not
\* get there are those in which Inkscape, whose working the program assumes,
\* failed on a '.dxf' entry.
C3_BatchSkipsOtherTypes ==
    (Batch /\ IsDir(input_path)) =>
        /\ \A k \in 1..Len(entries) : k < idx => EntryHandled(k)
        /\ pc = "done" => \A k \in 1..Len(entries) : EntryHandled(k)
        /\ pc = "raised" =>
            /\ exc[1].kind # "FileTypeError"
            /\ idx <= Len(entries)
            /\ EndsInDxf(entries[idx])
            /\ calls # <<>>
            /\ calls[Len(calls)].dxf = Joined(input_path, entries[idx])
            /\ calls[Len(calls)].outcome \in {"not started", "untouched", "garbage"}

\* The listing a.dxf, b.txt, c.dxf run to the end: a.svg and c.svg written, b.txt
\* skipped; the witness of C3.
C3_Witness ==
    /\ pc = "done"
    /\ input_path = Dir
    /\ output_path = <<>>
    /\ entries = <<ADxf, BTxt, CDxf>>
    /\ Printed("Skipped", BTxt)
    /\ \A n \in {ADxf, CDxf} :
        /\ Dir \o <<"/">> \o get_svg_name(n) \in DOMAIN fs
        /\ fs[Dir \o <<"/">> \o get_svg_name(n)].doc.src = Dir \o <<"/">> \o n

\* The content the run should leave for a drawing: Inkscape's output restyled.
StyledOutputOf(dxf) ==
    ValidFile(style_strokes(InkscapeDoc(dxf), DefaultColor, DefaultWidth))

\* C4 as stated: when main returns from a batch, every .dxf entry that was
\* converted and written back has an output file holding its own converted
\* and restyled content, for every value of the shared output path.
C4_EveryInputItsOwnOutput ==
    (Batch /\ pc = "done") =>
        \A k \in 1..Len(calls) :
            (calls[k].op = "convert" /\ calls[k].outcome = "ok") =>
                /\ calls[k].svg \in DOMAIN fs
                /\ fs[calls[k].svg] = StyledOutputOf(calls[k].dxf)

\* C6 as stated: when the converter exits without producing the output,
\* preprocess does not get to the write-back: every write-back follows a
\* conversion that produced the file.
C6_SilentFailureRaises ==
    /\ pc = "write" => calls[Len(calls)].outcome = "ok"
    /\ \A k \in 2..Len(calls) :
        calls[k].op = "write" => calls[k - 1].outcome = "ok"

XmlErrors == {"OSError", "XMLSyntaxError"}

\* C7, the part about termination: in batch mode an error of the XML step is
\* not caught, ends the run, and no entry after the failing one is converted
\* or styled.
C7_XmlErrorEndsRun ==
    /\ (Batch /\ pc = "except" /\ exc[1].kind \in XmlErrors) =>
        ~ENABLED MainSkip
    /\ (Batch /\ pc = "raised" /\ exc[1].kind \in XmlErrors) =>
        /\ idx <= Len(entries)
        /\ \A k \in 1..Len(entries) :
            k > idx => /\ ~Called("convert", Joined(input_path, entries[k]))
                       /\ ~Called("write", Joined(input_path, entries[k]))

\* C7 as stated: the above, and the outputs of the entries processed before
\* the failing one remain in place.
C7_XmlErrorKeepsEarlierOutputs ==
    /\ C7_XmlErrorEndsRun
    /\ (Batch /\ pc = "raised" /\ exc[1].kind \in XmlErrors) =>
        \A k \in 1..Len(calls) :
            (calls[k].op = "convert" /\ calls[k].outcome = "ok"
                /\ calls[k].dxf # dxf_path) =>
                /\ calls[k].svg \in DOMAIN fs
                /\ fs[calls[k].svg] = StyledOutputOf(calls[k].dxf)

\* C10: the converter is invoked exactly once for every accepted file, before
\* its style rewrite and its write-back; a write-back directly follows its own
\* conversion, and a conversion is followed by nothing but its own write-back,
\* so no second file is converted while one awaits its write-back.
C10_ConvertThenStyleThenWrite ==
    /\ \A k \in 1..Len(calls) :
        /\ calls[k].op = "write" =>
            /\ k > 1
            /\ calls[k - 1].op = "convert"
            /\ calls[k - 1].dxf = calls[k].dxf
            /\ calls[k - 1].svg = calls[k].svg
        /\ (calls[k].op = "convert" /\ k < Len(calls)) =>
            calls[k + 1].op = "write"
        /\ \A j \in 1..Len(calls) :
            (j # k /\ calls[j].op = "convert" /\ calls[k].op = "convert") =>
                calls[j].dxf # calls[k].dxf
    /\ pc = "convert" =>
        /\ ~Called("convert", dxf_path)
        /\ calls = <<>> \/ calls[Len(calls)].op = "write"
    /\ pc \in {"style", "write"} =>
        /\ calls # <<>>
        /\ calls[Len(calls)].op = "convert"
        /\ calls[Len(calls)].dxf = dxf_path
    /\ (pc = "done" /\ ~Batch) => Len(calls) = 2
    /\ (Batch /\ IsDir(input_path)) =>
        \A k \in 1..Len(entries) :
            (k < idx /\ EndsInDxf(entries[k])) =>
                Cardinality({n \in 1..Len(calls) :
                    calls[n].op = "convert"
                    /\ calls[n].dxf = Joined(input_path, entries[k])}) = 1

\* Two drawings of a batch, each converted and then written back before the
\* next; the witness of C10.
C10_Witness ==
    /\ pc = "done"
    /\ entries = <<CDxf, NoExt, ADxf>>
    /\ Len(calls) = 4
    /\ calls[1].op = "convert" /\ calls[1].dxf = Dir \o <<"/">> \o CDxf
    /\ calls[2].op = "write" /\ calls[2].dxf = Dir \o <<"/">> \o CDxf
    /\ calls[3].op = "convert" /\ calls[3].dxf = Dir \o <<"/">> \o ADxf
    /\ calls[4].op = "write" /\ calls[4].dxf = Dir \o <<"/">> \o ADxf

====
